---- MODULE Spec2Model ----
(***************************************************************************)
(* Model of ruma-client's session-aware request dispatch (src/lib.rs):     *)
(* Client / ClientData (an Arc around the homeserver URL, the transport    *)
(* and a Mutex<Option<Session>>), Client::request, the convenience         *)
(* operations log_in / register_guest / register_user and the sync stream  *)
(* built with futures::stream::unfold.                                     *)
(*                                                                         *)
(* Futures are lazy (futures 0.1): calling an operation builds the future, *)
(* its closures run when it is polled.  Every closure of the and_then      *)
(* chain of Client::request is one step of the model, so steps of          *)
(* different futures interleave exactly where a multi-threaded executor    *)
(* can interleave them.                                                    *)
(***************************************************************************)
EXTENDS Naturals, Sequences, FiniteSets, TLC

---------------------------------------------------------------------------
(* Bounds of the exploration *)
MaxHandles == 2
MaxTasks == 2
MaxPolls == 3

---------------------------------------------------------------------------
(* Option<T>: None is the empty tuple, Some(x) the one-element tuple *)
None == <<>>
Some(x) == <<x>>

(* the kinds of Error a future of Client::request can resolve to *)
ErrorKinds ==
  {"RequestConstruction", "AuthenticationRequired", "UrlConstruction",
   "Transport", "ResponseDecoding"}

(* Session values: the one a constructor may be given, and the ones the    *)
(* homeserver may answer a login or registration with                      *)
RestoredSession ==
  [access_token |-> "tok0", device_id |-> "dev0", user_id |-> "@zero"]
ServerSessions ==
  {[access_token |-> "tokA", device_id |-> "devA", user_id |-> "@a"],
   [access_token |-> "tokB", device_id |-> "devB", user_id |-> "@b"]}

(* next_batch tokens the homeserver may answer a sync with *)
Cursors == {"t1", "t2"}

(* homeserver URLs a constructor may be given; the second carries a path   *)
(* and a query of its own, which the dispatcher has to overlay             *)
PlainUrl ==
  [scheme |-> "https", host |-> "example.com", port |-> 443,
   path |-> "/", query |-> None]
HomeserverUrls ==
  {PlainUrl,
   [scheme |-> "http", host |-> "hs.local", port |-> 8008,
    path |-> "/old", query |-> Some(<< <<"access_token", "stale">> >>)]}

(* Endpoints of the catalogue are named by strings: "login", "register",   *)
(* "sync_events", "get_alias", "join_room_by_id".                          *)

(* E::METADATA.requires_authentication *)
RequiresAuthentication(E) == E \in {"sync_events", "join_room_by_id"}

(* path of the hyper request the endpoint's conversion produces *)
EndpointPath(E) ==
  CASE E = "login" -> "/_matrix/client/r0/login"
    [] E = "register" -> "/_matrix/client/r0/register"
    [] E = "sync_events" -> "/_matrix/client/r0/sync"
    [] E = "get_alias" -> "/_matrix/client/r0/directory/room/alias"
    [] OTHER -> "/_matrix/client/r0/rooms/room/join"

(* a typed request; the fields an endpoint does not have stay None *)
EmptyRequest ==
  [kind |-> None, device_id |-> None, filter |-> None, since |-> None,
   full_state |-> None, set_presence |-> None, timeout |-> None]

(* query pairs the conversion of a typed request puts on the URI *)
OptPair(name, opt) == IF opt = None THEN <<>> ELSE << <<name, opt[1]>> >>

RequestQueryPairs(request) ==
  OptPair("filter", request.filter) \o OptPair("since", request.since)
    \o OptPair("set_presence", request.set_presence)

(* request.try_into(): the hyper request, or None when the conversion fails *)
TryInto(E, request, conv_ok) ==
  IF conv_ok
  THEN Some([method |-> IF E \in {"sync_events", "get_alias"} THEN "GET" ELSE "POST",
             path |-> EndpointPath(E),
             query |-> IF RequestQueryPairs(request) = <<>>
                       THEN None ELSE Some(RequestQueryPairs(request)),
             body |-> [kind |-> request.kind, device_id |-> request.device_id]])
  ELSE None

---------------------------------------------------------------------------
(* url::Url operations used by Client::request *)
SetPath(url, path) == [url EXCEPT !.path = path]
SetQuery(url, query) == [url EXCEPT !.query = query]
PrependPair(url, name, value) ==
  [url EXCEPT !.query =
     Some(<< <<name, value>> >> \o (IF url.query = None THEN <<>> ELSE url.query[1]))]

AppendPair(url, name, value) ==
  [url EXCEPT !.query =
     Some((IF url.query = None THEN <<>> ELSE url.query[1]) \o << <<name, value>> >>)]

(* url.as_ref(): the serialisation, component by component *)
UrlAsRef(url) == <<url.scheme, url.host, url.port, url.path, url.query>>

(* Uri::from_str on a serialisation the parser accepts *)
UriFromStr(s) ==
  [scheme |-> s[1], authority |-> <<s[2], s[3]>>, path |-> s[4], query |-> s[5]]

QueryPairs(query) == IF query = None THEN <<>> ELSE query[1]

HasParam(query, name) ==
  \E k \in 1..Len(QueryPairs(query)) : QueryPairs(query)[k][1] = name

---------------------------------------------------------------------------
VARIABLES
  heap,      \* the ClientData allocations: heap[p] is what Arc pointer p owns
  handles,   \* the Client handles the program holds
  tasks,     \* futures returned by endpoint calls and convenience operations
  streams    \* streams returned by Client::sync

vars == <<heap, handles, tasks, streams>>

(* Client::session() through handle h *)
session(h) == heap[handles[h]].session

---------------------------------------------------------------------------
(* impl Clone for Client: Self(self.0.clone()), a second pointer to the     *)
(* same allocation.  The result names the heap after the call and the      *)
(* pointer of the new handle.                                              *)
CloneClientDeep(hp, ptr) == [heap |-> Append(hp, hp[ptr]), ptr |-> Len(hp) + 1]

CloneClient(hp, ptr) == [heap |-> hp, ptr |-> ptr]

(* Client::new / Client::https / Client::custom *)
(* lock is the state of the Mutex (free, or held by <<kind, id>>); observed is *)
(* a history field: the last value session() returned and whether the store  *)
(* was written since.                                                        *)
NewClientData(homeserver_url, s) ==
  [homeserver_url |-> homeserver_url, session |-> s,
   lock |-> None, observed |-> None]

(* data.session.lock().unwrap(): blocks while another holder has the Mutex *)
CanLock(hp, data) == hp[data].lock = None

Lock(hp, data, who) == [hp EXCEPT ![data].lock = Some(who)]

Holds(hp, data, who) == hp[data].lock = Some(who)

UnlockLeaked(hp, data) == hp

(* the MutexGuard is dropped at the end of the statement that took it *)
Unlock(hp, data) == [hp EXCEPT ![data].lock = None]

SessionGuardTake(hp, data) ==
  [value |-> hp[data].session,
   heap |-> [hp EXCEPT ![data].session = None,
                       ![data].observed = Some([value |-> hp[data].session,
                                                fresh |-> TRUE])]]

(* Client::session() under the guard: self.0.session.lock().unwrap().clone() *)
SessionGuardClone(hp, data) ==
  [value |-> hp[data].session,
   heap |-> [hp EXCEPT ![data].observed = Some([value |-> hp[data].session,
                                               fresh |-> TRUE])]]

---------------------------------------------------------------------------
(* Client::request.  The future it returns is the record below; pc is the  *)
(* closure of the and_then chain that runs next.                           *)
(*   emptyAtCall and droppedAt are history fields: whether the store was   *)
(*   empty when request() was called, and where the future stood when it   *)
(*   was dropped.                                                          *)
Request(hp, ptr, E, request, conv_ok) ==
  [E |-> E, request |-> request,
   data1 |-> ptr, data2 |-> ptr,
   url |-> hp[ptr].homeserver_url,
   hyper_request |-> TryInto(E, request, conv_ok),
   pc |-> "start", err |-> "",
   read |-> None, uri |-> None, sent |-> <<>>,
   hyper_response |-> None, response |-> None,
   emptyAtCall |-> (hp[ptr].session = None), droppedAt |-> ""]

Fail(f, kind) == [f EXCEPT !.pc = "failed", !.err = kind]

OverlayPathOnly(url, hyper_request) == SetPath(url, hyper_request.path)

(* url.set_path(uri.path()); url.set_query(uri.query()) *)
Overlay(url, hyper_request) ==
  SetQuery(SetPath(url, hyper_request.path), hyper_request.query)

AuthenticateNoCheck(E, url, hp, data1) ==
  IF RequiresAuthentication(E)
  THEN [ok |-> TRUE,
        url |-> IF hp[data1].session # None
                THEN AppendPair(url, "access_token", hp[data1].session[1].access_token)
                ELSE url,
        read |-> Some(hp[data1].session)]
  ELSE [ok |-> TRUE, url |-> url, read |-> None]

AuthenticateAlways(E, url, hp, data1) ==
  IF hp[data1].session # None
  THEN [ok |-> TRUE,
        url |-> AppendPair(url, "access_token", hp[data1].session[1].access_token),
        read |-> Some(hp[data1].session)]
  ELSE [ok |-> ~RequiresAuthentication(E), url |-> url, read |-> Some(hp[data1].session)]

(* the authentication block: ok, the URL afterwards, and what was read     *)
(* from the store (None when the lock was not taken)                       *)
Authenticate(E, url, hp, data1) ==
  IF RequiresAuthentication(E)
  THEN IF hp[data1].session # None
       THEN [ok |-> TRUE,
             url |-> AppendPair(url, "access_token", hp[data1].session[1].access_token),
             read |-> Some(hp[data1].session)]
       ELSE [ok |-> FALSE, url |-> url, read |-> Some(hp[data1].session)]
  ELSE [ok |-> TRUE, url |-> url, read |-> None]

ResolveUrlValidateFirst(f, hp, uri_ok) ==
  IF f.hyper_request = None
  THEN Fail(f, "RequestConstruction")
  ELSE IF ~uri_ok
  THEN Fail([f EXCEPT !.url = Overlay(f.url, f.hyper_request[1])], "UrlConstruction")
  ELSE LET a == Authenticate(f.E, Overlay(f.url, f.hyper_request[1]), hp, f.data1)
           g == [f EXCEPT !.url = a.url, !.read = a.read]
       IN  IF ~a.ok THEN Fail(g, "AuthenticationRequired")
           ELSE [g EXCEPT !.pc = "resolved",
                          !.uri = Some(UriFromStr(UrlAsRef(a.url)))]

ResolveUrlAtCall(f, hp, uri_ok) ==
  IF f.hyper_request = None
  THEN Fail(f, "RequestConstruction")
  ELSE LET seen == IF f.emptyAtCall THEN [hp EXCEPT ![f.data1].session = None] ELSE hp
           a == Authenticate(f.E, Overlay(f.url, f.hyper_request[1]), seen, f.data1)
           g == [f EXCEPT !.url = a.url, !.read = a.read]
       IN  IF ~a.ok THEN Fail(g, "AuthenticationRequired")
           ELSE IF ~uri_ok THEN Fail(g, "UrlConstruction")
           ELSE [g EXCEPT !.pc = "resolved",
                          !.uri = Some(UriFromStr(UrlAsRef(a.url)))]

(* first and_then closure, entered only when the conversion succeeded.     *)
(* uri_ok is the verdict of Uri::from_str (the http crate's parser) on the *)
(* serialised URL.                                                         *)
ResolveUrl(f, hp, uri_ok) ==
  IF f.hyper_request = None
  THEN Fail(f, "RequestConstruction")
  ELSE LET a == Authenticate(f.E, Overlay(f.url, f.hyper_request[1]), hp, f.data1)
           g == [f EXCEPT !.url = a.url, !.read = a.read]
       IN  IF ~a.ok THEN Fail(g, "AuthenticationRequired")
           ELSE IF ~uri_ok THEN Fail(g, "UrlConstruction")
           ELSE [g EXCEPT !.pc = "resolved",
                          !.uri = Some(UriFromStr(UrlAsRef(a.url)))]

(* second and_then closure: the URI replaces the request's and the request *)
(* goes to hyper                                                           *)
SendRequest(f) ==
  [f EXCEPT !.pc = "inflight",
            !.sent = Append(@, [method |-> f.hyper_request[1].method,
                                uri |-> f.uri[1],
                                body |-> f.hyper_request[1].body])]

(* what the transport may resolve to for a request of endpoint E *)
EmptyBody == [access_token |-> "", device_id |-> "", user_id |-> "", next_batch |-> ""]

OkBodies(E) ==
  IF E \in {"login", "register"}
  THEN {[access_token |-> s.access_token, device_id |-> s.device_id,
         user_id |-> s.user_id, next_batch |-> ""] : s \in ServerSessions}
  ELSE IF E = "sync_events"
  THEN {[EmptyBody EXCEPT !.next_batch = c] : c \in Cursors}
  ELSE {EmptyBody}

TransportOutcomes(E) ==
  {[ok |-> FALSE, status |-> 0, body |-> EmptyBody],
   [ok |-> TRUE, status |-> 500, body |-> EmptyBody]}
    \cup {[ok |-> TRUE, status |-> 200, body |-> b] : b \in OkBodies(E)}

ReceiveResponseRetry(f, out) ==
  IF out.ok
  THEN [f EXCEPT !.pc = "responded",
                 !.hyper_response = Some([status |-> out.status, body |-> out.body])]
  ELSE [f EXCEPT !.pc = "resolved"]

(* the hyper future resolves: map_err(Error::from) on failure *)
ReceiveResponse(f, out) ==
  IF out.ok
  THEN [f EXCEPT !.pc = "responded",
                 !.hyper_response = Some([status |-> out.status, body |-> out.body])]
  ELSE Fail(f, "Transport")

(* the typed response the endpoint's FutureFrom builds from a body *)
DecodeBody(E, body) ==
  IF E \in {"login", "register"} THEN [body EXCEPT !.next_batch = ""]
  ELSE IF E = "sync_events" THEN [EmptyBody EXCEPT !.next_batch = body.next_batch]
  ELSE EmptyBody

(* third and_then closure: E::Response::future_from(hyper_response) *)
FutureFrom(f) ==
  IF f.hyper_response[1].status = 200
  THEN [f EXCEPT !.pc = "done",
                 !.response = Some(DecodeBody(f.E, f.hyper_response[1].body))]
  ELSE Fail(f, "ResponseDecoding")

Pending == {"start", "resolved", "inflight", "responded"}

DroppedStillLive(f) == f

(* the future is dropped: what it held is released, what it did remains *)
Dropped(f) ==
  [f EXCEPT !.pc = "dropped", !.uri = None, !.hyper_response = None,
            !.droppedAt = f.pc]

---------------------------------------------------------------------------
(* The convenience operations: login::call / register::call followed by    *)
(* .map(move |response| { ... })                                           *)
SessionFromResponseSwapped(response) ==
  [access_token |-> response.access_token,
   device_id |-> response.user_id,
   user_id |-> response.device_id]

SessionFromResponse(response) ==
  [access_token |-> response.access_token,
   device_id |-> response.device_id,
   user_id |-> response.user_id]

StoreSessionMerging(hp, data, s) ==
  [hp EXCEPT ![data].session =
     IF hp[data].session = None THEN Some(s)
     ELSE Some([s EXCEPT !.device_id = hp[data].session[1].device_id])]

(* *data.session.lock().unwrap() = Some(session.clone()) *)
StoreSession(hp, data, s) ==
  [hp EXCEPT ![data].session = Some(s),
             ![data].observed = IF @ = None THEN @
                                ELSE Some([@[1] EXCEPT !.fresh = FALSE])]

MapSessionClearing(t, f2, hp) ==
  IF f2.pc = "done"
  THEN [task |-> [t EXCEPT !.fut = f2,
                           !.item = Some(SessionFromResponse(f2.response[1])),
                           !.writes = @ + 1],
        heap |-> StoreSession(hp, t.data, SessionFromResponse(f2.response[1]))]
  ELSE [task |-> [t EXCEPT !.fut = f2,
                           !.error = IF f2.pc = "failed" THEN f2.err ELSE ""],
        heap |-> IF f2.pc = "failed" THEN [hp EXCEPT ![t.data].session = None] ELSE hp]

(* Map::poll over the dispatch future f2: the closure runs on success only *)
MapSession(t, f2, hp) ==
  IF f2.pc = "done"
  THEN [task |-> [t EXCEPT !.fut = f2,
                           !.item = Some(SessionFromResponse(f2.response[1])),
                           !.writes = @ + 1],
        heap |-> StoreSession(hp, t.data, SessionFromResponse(f2.response[1]))]
  ELSE [task |-> [t EXCEPT !.fut = f2,
                           !.error = IF f2.pc = "failed" THEN f2.err ELSE ""],
        heap |-> hp]

PollTaskStoring(t, f2, hp) == MapSession(t, f2, hp)

(* what a poll of task t leaves behind once its dispatch future became f2 *)
PollTask(t, f2, hp) ==
  IF t.op = "call"
  THEN [task |-> [t EXCEPT !.fut = f2,
                           !.error = IF f2.pc = "failed" THEN f2.err ELSE ""],
        heap |-> hp]
  ELSE MapSession(t, f2, hp)

(* the future an operation returns.  via (the handle it was called on),    *)
(* writes (how often it wrote the store) and dropped (the program dropped  *)
(* it before it completed) are history fields.                             *)
NewTask(op, h, data, f) ==
  [op |-> op, via |-> h, data |-> data, fut |-> f,
   item |-> None, error |-> "", writes |-> 0, dropped |-> FALSE]

ConvenienceOps == {"log_in", "register_guest", "register_user"}

---------------------------------------------------------------------------
Sessions == {None, Some(RestoredSession)}

(* the state after Client::new(homeserver_url, session) *)
Init ==
  /\ \E u \in HomeserverUrls, s \in Sessions : heap = <<NewClientData(u, s)>>
  /\ handles = <<1>>
  /\ tasks = <<>>
  /\ streams = <<>>

(* client.clone() by the program *)
Clone(h) ==
  /\ Len(handles) < MaxHandles
  /\ heap' = CloneClient(heap, handles[h]).heap
  /\ handles' = Append(handles, CloneClient(heap, handles[h]).ptr)
  /\ UNCHANGED <<tasks, streams>>

(* E::call(client, request) on an endpoint of the catalogue *)
Call(h, E, request, conv_ok) ==
  /\ Len(tasks) < MaxTasks
  /\ tasks' = Append(tasks,
       NewTask("call", h, handles[h], Request(heap, handles[h], E, request, conv_ok)))
  /\ UNCHANGED <<heap, handles, streams>>

(* a convenience operation through handle h: data = self.0.clone(), then   *)
(* E::call(self.clone(), request)                                          *)
Convenience(op, h, E, request, conv_ok) ==
  LET c == CloneClient(heap, handles[h]) IN
  /\ Len(tasks) < MaxTasks
  /\ heap' = c.heap
  /\ tasks' = Append(tasks,
       NewTask(op, h, handles[h], Request(c.heap, c.ptr, E, request, conv_ok)))
  /\ UNCHANGED <<handles, streams>>

log_in(h, device_id, conv_ok) ==
  Convenience("log_in", h, "login",
              [EmptyRequest EXCEPT !.kind = Some("Password"), !.device_id = device_id],
              conv_ok)

register_guest(h, conv_ok) ==
  Convenience("register_guest", h, "register",
              [EmptyRequest EXCEPT !.kind = Some("Guest")], conv_ok)

register_user(h, conv_ok) ==
  Convenience("register_user", h, "register",
              [EmptyRequest EXCEPT !.kind = Some("User")], conv_ok)

(* one poll step of task i that turns its dispatch future into f2 *)
StepTask(i, f2) ==
  /\ tasks' = [tasks EXCEPT ![i] = PollTask(tasks[i], f2, heap).task]
  /\ heap' = PollTask(tasks[i], f2, heap).heap
  /\ UNCHANGED <<handles, streams>>

TaskResolve(i, uri_ok) ==
  /\ tasks[i].fut.pc = "start"
  /\ StepTask(i, ResolveUrl(tasks[i].fut, heap, uri_ok))

TaskSend(i) ==
  /\ tasks[i].fut.pc = "resolved"
  /\ StepTask(i, SendRequest(tasks[i].fut))

TaskReceive(i, out) ==
  /\ tasks[i].fut.pc = "inflight"
  /\ out \in TransportOutcomes(tasks[i].fut.E)
  /\ StepTask(i, ReceiveResponse(tasks[i].fut, out))

TaskDecode(i) ==
  /\ tasks[i].fut.pc = "responded"
  /\ StepTask(i, FutureFrom(tasks[i].fut))

(* the program drops the future before it completed *)
TaskDrop(i) ==
  /\ tasks[i].fut.pc \in Pending
  /\ tasks' = [tasks EXCEPT ![i].fut = Dropped(@), ![i].dropped = TRUE]
  /\ UNCHANGED <<heap, handles, streams>>

---------------------------------------------------------------------------
(* The same polls at the grain of the Mutex: the two places that take the   *)
(* guard (the authentication check of request, the closure of a convenience *)
(* operation) and Client::session() become lock / critical section+unlock.  *)
TaskHolder(i) == <<"task", i>>

SessionHolder(h) == <<"session", h>>

(* the next step of task t runs under the guard *)
NeedsLock(t) ==
  \/ /\ t.fut.pc = "start"
     /\ t.fut.hyper_request # None
     /\ RequiresAuthentication(t.fut.E)
  \/ /\ t.fut.pc = "responded"
     /\ t.op \in ConvenienceOps
     /\ t.fut.hyper_response[1].status = 200

(* the ClientData whose Mutex that step takes: data1 in request, data in the *)
(* closure of the convenience operation                                      *)
LockOf(t) == IF t.fut.pc = "start" THEN t.fut.data1 ELSE t.data

TaskLock(i) ==
  /\ NeedsLock(tasks[i])
  /\ CanLock(heap, LockOf(tasks[i]))
  /\ heap' = Lock(heap, LockOf(tasks[i]), TaskHolder(i))
  /\ UNCHANGED <<handles, tasks, streams>>

(* one poll step of task i under the guard; the guard is dropped in it *)
LockedStep(i, f2) ==
  /\ Holds(heap, LockOf(tasks[i]), TaskHolder(i))
  /\ tasks' = [tasks EXCEPT ![i] = PollTask(tasks[i], f2, heap).task]
  /\ heap' = Unlock(PollTask(tasks[i], f2, heap).heap, LockOf(tasks[i]))
  /\ UNCHANGED <<handles, streams>>

(* if let Some(ref session) = *data1.session.lock().unwrap() { ... } *)
LockedResolve(i, uri_ok) ==
  /\ tasks[i].fut.pc = "start"
  /\ LockedStep(i, ResolveUrl(tasks[i].fut, heap, uri_ok))

(* *data.session.lock().unwrap() = Some(session.clone()) *)
LockedStore(i) ==
  /\ tasks[i].fut.pc = "responded"
  /\ LockedStep(i, FutureFrom(tasks[i].fut))

(* client.session() by the program, through handle h *)
SessionLock(h) ==
  /\ CanLock(heap, handles[h])
  /\ heap' = Lock(heap, handles[h], SessionHolder(h))
  /\ UNCHANGED <<handles, tasks, streams>>

SessionUnlock(h) ==
  /\ Holds(heap, handles[h], SessionHolder(h))
  /\ heap' = Unlock(SessionGuardClone(heap, handles[h]).heap, handles[h])
  /\ UNCHANGED <<handles, tasks, streams>>

---------------------------------------------------------------------------
(* Client::sync: stream::unfold(since, closure).  The Unfold state is      *)
(* Ready(since), Processing(future) or Empty; the stream record keeps the  *)
(* latest dispatch future in fut, and as history the requests it built     *)
(* (issued), what it handed to the transport (wire) and what it yielded    *)
(* (items).                                                                *)
PresenceDirectiveInverted(set_presence) ==
  IF set_presence THEN Some("Offline") ELSE None

PresenceDirective(set_presence) ==
  IF set_presence THEN None ELSE Some("Offline")

Filters == {None, Some("filter1")}

(* sync_events::Request { filter, since, full_state: None, set_presence,   *)
(* timeout: None }                                                         *)
SyncRequest(st, since) ==
  [EmptyRequest EXCEPT !.filter = st.filter, !.since = since,
                       !.set_presence = st.set_presence]

SyncMapRestart(res) == [item |-> res, next |-> None]

(* .map(|res| (res, Some(res.next_batch.clone()))) *)
SyncMap(res) == [item |-> res, next |-> Some(res.next_batch)]

UnfoldCanStartAnytime(st) == st.state # "Empty"

(* Unfold::poll calls the closure only in state Ready *)
UnfoldCanStart(st) == st.state = "Ready"

UnfoldOnErrorRetry(st) ==
  [st EXCEPT !.state = "Ready", !.since = st.issued[Len(st.issued)].since]

(* Unfold::poll on an error of the future: the state stays Empty *)
UnfoldOnError(st) == [st EXCEPT !.state = "Empty", !.since = None]

OkItem(f) ==
  [kind |-> "Ok", response |-> SyncMap(f.response[1]).item, err |-> "",
   request |-> f.request]
ErrItem(f) ==
  [kind |-> "Err", response |-> EmptyBody, err |-> f.err, request |-> f.request]
EndItem ==
  [kind |-> "End", response |-> EmptyBody, err |-> "", request |-> EmptyRequest]

(* Unfold::poll once the future being processed became f2 *)
UnfoldAdvance(st, f2) ==
  IF f2.pc = "done"
  THEN [st EXCEPT !.fut = Some(f2), !.state = "Ready",
                  !.since = SyncMap(f2.response[1]).next,
                  !.items = Append(@, OkItem(f2))]
  ELSE IF f2.pc = "failed"
  THEN [UnfoldOnError(st) EXCEPT !.fut = Some(f2), !.items = Append(@, ErrItem(f2))]
  ELSE [st EXCEPT !.fut = Some(f2),
                  !.wire = IF Len(f2.sent) > Len(st.fut[1].sent)
                           THEN Append(@, f2.sent[Len(f2.sent)]) ELSE @]

(* client.sync(filter, since, set_presence); the model follows one stream *)
sync(h, filter, since, set_presence) ==
  LET c == CloneClient(heap, handles[h]) IN
  /\ streams = <<>>
  /\ heap' = c.heap
  /\ streams' = Append(streams,
       [client |-> c.ptr,
        filter |-> filter, set_presence |-> PresenceDirective(set_presence),
        state |-> "Ready", since |-> since, fut |-> None,
        issued |-> <<>>, wire |-> <<>>, items |-> <<>>,
        arg_since |-> since, arg_presence |-> set_presence, dropped |-> FALSE,
        createdEmpty |-> (heap[handles[h]].session = None)])
  /\ UNCHANGED <<handles, tasks>>

(* a poll in state Ready: the closure builds the next dispatch future *)
StreamStart(s, conv_ok) ==
  LET st == streams[s]
      c == CloneClient(heap, st.client)
  IN
  /\ ~st.dropped
  /\ UnfoldCanStart(st)
  /\ Len(st.issued) < MaxPolls
  /\ heap' = c.heap
  /\ streams' = [streams EXCEPT ![s] =
       [st EXCEPT !.state = "Processing", !.since = None,
                  !.fut = Some(Request(c.heap, c.ptr, "sync_events",
                                       SyncRequest(st, st.since), conv_ok)),
                  !.issued = Append(@, SyncRequest(st, st.since))]]
  /\ UNCHANGED <<handles, tasks>>

Processing(s, pc) ==
  /\ ~streams[s].dropped
  /\ streams[s].state = "Processing"
  /\ streams[s].fut[1].pc = pc

StepStream(s, f2) ==
  /\ streams' = [streams EXCEPT ![s] = UnfoldAdvance(streams[s], f2)]
  /\ UNCHANGED <<heap, handles, tasks>>

StreamResolve(s, uri_ok) ==
  /\ Processing(s, "start")
  /\ StepStream(s, ResolveUrl(streams[s].fut[1], heap, uri_ok))

StreamSend(s) ==
  /\ Processing(s, "resolved")
  /\ StepStream(s, SendRequest(streams[s].fut[1]))

StreamReceive(s, out) ==
  /\ Processing(s, "inflight")
  /\ out \in TransportOutcomes("sync_events")
  /\ StepStream(s, ReceiveResponse(streams[s].fut[1], out))

StreamDecode(s) ==
  /\ Processing(s, "responded")
  /\ StepStream(s, FutureFrom(streams[s].fut[1]))

Ended(st) == st.items # <<>> /\ st.items[Len(st.items)].kind = "End"

(* a poll in state Empty: Ready(None), the end of the stream *)
StreamEnd(s) ==
  /\ ~streams[s].dropped
  /\ streams[s].state = "Empty"
  /\ ~Ended(streams[s])
  /\ streams' = [streams EXCEPT ![s].items = Append(@, EndItem)]
  /\ UNCHANGED <<heap, handles, tasks>>

(* the consumer drops the stream, and with it the future in progress *)
StreamDrop(s) ==
  /\ ~streams[s].dropped
  /\ ~Ended(streams[s])
  /\ streams' = [streams EXCEPT ![s].dropped = TRUE,
                                ![s].fut = IF streams[s].state = "Processing"
                                           THEN Some(Dropped(@[1]))
                                           ELSE @]
  /\ UNCHANGED <<heap, handles, tasks>>

---------------------------------------------------------------------------
Handles == 1..Len(handles)
Tasks == 1..Len(tasks)
Streams == 1..Len(streams)

(* endpoints the program calls directly, and the inputs of the operations *)
CalledEndpoints == {"get_alias", "sync_events"}
CallRequests(E) ==
  IF E = "sync_events"
  THEN {[EmptyRequest EXCEPT !.since = Some("t1")]}
  ELSE {EmptyRequest}
DeviceIds == {None}
StartCursors == {None} \cup {Some(t) : t \in Cursors}

CallStep ==
  \/ \E h \in Handles, E \in CalledEndpoints, ok \in BOOLEAN :
       \E r \in CallRequests(E) : Call(h, E, r, ok)
  \/ \E h \in Handles, d \in DeviceIds, ok \in BOOLEAN : log_in(h, d, ok)
  \/ \E h \in Handles, ok \in BOOLEAN : register_guest(h, ok)
  \/ \E h \in Handles, ok \in BOOLEAN : register_user(h, ok)

TaskStep ==
  \/ \E i \in Tasks, ok \in BOOLEAN : TaskResolve(i, ok)
  \/ \E i \in Tasks : TaskSend(i)
  \/ \E i \in Tasks : \E out \in TransportOutcomes(tasks[i].fut.E) : TaskReceive(i, out)
  \/ \E i \in Tasks : TaskDecode(i)

SyncStep ==
  \/ \E h \in Handles, f \in Filters, c \in StartCursors, p \in BOOLEAN : sync(h, f, c, p)
  \/ \E s \in Streams, ok \in BOOLEAN : StreamStart(s, ok)
  \/ \E s \in Streams, ok \in BOOLEAN : StreamResolve(s, ok)
  \/ \E s \in Streams : StreamSend(s)
  \/ \E s \in Streams : \E out \in TransportOutcomes("sync_events") : StreamReceive(s, out)
  \/ \E s \in Streams : StreamDecode(s)
  \/ \E s \in Streams : StreamEnd(s)
  \/ \E s \in Streams : StreamDrop(s)

(* endpoint calls and convenience operations on one Client handle *)
Next == CallStep \/ TaskStep

Spec == Init /\ [][Next]_vars

(* clones of the handle, with logins and authenticated calls through them *)
NextClone ==
  \/ \E h \in Handles : Clone(h)
  \/ \E h \in Handles, d \in DeviceIds : log_in(h, d, TRUE)
  \/ \E h \in Handles : \E r \in CallRequests("sync_events") :
       Call(h, "sync_events", r, TRUE)
  \/ TaskStep

InitClone == Init /\ heap[1].homeserver_url = PlainUrl

SpecClone == InitClone /\ [][NextClone]_vars

(* a login that the caller may abandon *)
NextCancel ==
  \/ \E h \in Handles, d \in DeviceIds, ok \in BOOLEAN : log_in(h, d, ok)
  \/ TaskStep
  \/ \E i \in Tasks : TaskDrop(i)

SpecCancel == Init /\ [][NextCancel]_vars

(* one sync stream and its consumer *)
(* steps of a task that take no guard *)
FreeStep ==
  \E i \in Tasks :
    /\ ~NeedsLock(tasks[i])
    /\ \/ \E uri_ok \in BOOLEAN : TaskResolve(i, uri_ok)
       \/ TaskSend(i)
       \/ \E out \in TransportOutcomes(tasks[i].fut.E) : TaskReceive(i, out)
       \/ TaskDecode(i)

NextLock ==
  \/ \E h \in Handles, d \in DeviceIds : log_in(h, d, TRUE)
  \/ \E h \in Handles, r \in CallRequests("sync_events") :
       Call(h, "sync_events", r, TRUE)
  \/ \E i \in Tasks : TaskLock(i)
  \/ \E i \in Tasks, uri_ok \in BOOLEAN : LockedResolve(i, uri_ok)
  \/ \E i \in Tasks : LockedStore(i)
  \/ FreeStep
  \/ \E h \in Handles : SessionLock(h)
  \/ \E h \in Handles : SessionUnlock(h)

SpecLock == InitClone /\ [][NextLock]_vars

(* one stream next to one log_in, either of which the program may drop *)
NextStreamLogin ==
  \/ \E h \in Handles, d \in DeviceIds, conv_ok \in BOOLEAN :
       tasks = <<>> /\ log_in(h, d, conv_ok)
  \/ TaskStep
  \/ \E i \in Tasks : TaskDrop(i)
  \/ SyncStep

SpecStreamLogin == Init /\ [][NextStreamLogin]_vars

NextSync == SyncStep

SpecSync == Init /\ [][NextSync]_vars

---------------------------------------------------------------------------
(* Properties of Client::request and the convenience operations            *)

Futs ==
  {tasks[i].fut : i \in Tasks}
    \cup {streams[s].fut[1] : s \in {x \in Streams : streams[x].fut # None}}

Finished(f) == f.pc \in {"done", "failed"}

Convenient == {i \in Tasks : tasks[i].op \in ConvenienceOps}

(* task i completes successfully in this step *)
Completes(i) == tasks[i].fut.pc # "done" /\ tasks'[i].fut.pc = "done"

(* C1 as stated: every call on an endpoint that requires authentication,   *)
(* made (request() called) while the Session Store is empty, fails with    *)
(* AuthenticationRequired and never reaches the transport.                 *)
C1_Original ==
  \A f \in Futs :
    (RequiresAuthentication(f.E) /\ f.emptyAtCall) =>
      /\ f.sent = <<>>
      /\ Finished(f) => (f.pc = "failed" /\ f.err = "AuthenticationRequired")

(* C1 amended: a call on an endpoint that requires authentication whose    *)
(* authentication check reads an empty Session Store fails with            *)
(* AuthenticationRequired and reaches the transport zero times; a call     *)
(* whose request conversion failed never reaches the transport either.     *)
C1_AuthenticationRequired ==
  \A f \in Futs :
    RequiresAuthentication(f.E) =>
      /\ f.read = Some(None) =>
           (f.pc = "failed" /\ f.err = "AuthenticationRequired" /\ f.sent = <<>>)
      /\ f.err = "AuthenticationRequired" => (f.read = Some(None) /\ f.sent = <<>>)
      /\ f.hyper_request = None => (f.read = None /\ f.sent = <<>>)

C1_Witness ==
  \E f \in Futs :
    /\ RequiresAuthentication(f.E) /\ f.emptyAtCall /\ f.read = Some(None)
    /\ f.pc = "failed" /\ f.err = "AuthenticationRequired" /\ f.sent = <<>>

(* every URL an authenticated call hands to the transport ends in the      *)
(* token the call read                                                     *)
C2_TokenOnWire ==
  \A f \in Futs :
    (RequiresAuthentication(f.E) /\ ~f.emptyAtCall) =>
      /\ f.err # "AuthenticationRequired"
      /\ \A k \in 1..Len(f.sent) :
           /\ f.read # None /\ f.read[1] # None
           /\ QueryPairs(f.sent[k].uri.query) =
                QueryPairs(f.hyper_request[1].query)
                  \o << <<"access_token", f.read[1][1].access_token>> >>

C2_ReadMoment ==
  \A i \in Tasks :
    (/\ RequiresAuthentication(tasks[i].fut.E)
     /\ tasks[i].fut.pc = "start" /\ tasks'[i].fut.pc = "resolved") =>
      /\ tasks'[i].fut.read = Some(heap[tasks[i].fut.data1].session)
      /\ QueryPairs(tasks'[i].fut.uri[1].query) =
           QueryPairs(tasks[i].fut.hyper_request[1].query)
             \o << <<"access_token",
                     heap[tasks[i].fut.data1].session[1].access_token>> >>

(* C2: a call on an endpoint that requires authentication, made while the  *)
(* store holds a Session, hands the transport a URL whose query is the     *)
(* request's own parameters followed by access_token = the token the call  *)
(* read from the store, and that token is the one the store held in the    *)
(* step in which the call read it.                                         *)
C2_AccessToken == []C2_TokenOnWire /\ [][C2_ReadMoment]_vars

(* the call was made under the restored session and read a later one *)
C2_Witness ==
  \E f \in Futs :
    /\ RequiresAuthentication(f.E) /\ ~f.emptyAtCall /\ f.sent # <<>>
    /\ f.hyper_request[1].query # None
    /\ f.read = Some(Some([access_token |-> "tokA", device_id |-> "devA",
                           user_id |-> "@a"]))

(* C3: a call on an endpoint that does not require authentication hands    *)
(* the transport a URL without an access_token parameter, whatever the     *)
(* store holds, and never reads the store.                                 *)
C3_NoTokenUnauthenticated ==
  \A f \in Futs :
    ~RequiresAuthentication(f.E) =>
      /\ f.read = None
      /\ f.err # "AuthenticationRequired"
      /\ \A k \in 1..Len(f.sent) : ~HasParam(f.sent[k].uri.query, "access_token")

(* an unauthenticated request went out while the store held a Session and  *)
(* the homeserver URL itself carried an access_token parameter             *)
C3_Witness ==
  \E i \in Tasks :
    /\ tasks[i].op = "call" /\ ~RequiresAuthentication(tasks[i].fut.E)
    /\ tasks[i].fut.sent # <<>>
    /\ heap[tasks[i].data].session # None
    /\ HasParam(heap[tasks[i].data].homeserver_url.query, "access_token")

SameFields(s, body) ==
  /\ s.access_token = body.access_token
  /\ s.device_id = body.device_id
  /\ s.user_id = body.user_id

C4_ItemIsResponse ==
  \A i \in Convenient :
    tasks[i].fut.pc = "done" =>
      /\ tasks[i].item # None
      /\ SameFields(tasks[i].item[1], tasks[i].fut.hyper_response[1].body)

C4_StoredOnCompletion ==
  /\ \A i \in Convenient :
       Completes(i) =>
         /\ heap'[tasks[i].data].session = tasks'[i].item
         /\ \A h \in Handles : handles[h] = tasks[i].data => session(h)' = tasks'[i].item
  /\ \A p \in 1..Len(heap) :
       heap'[p].session # heap[p].session =>
         \E i \in Convenient :
           Completes(i) /\ tasks[i].data = p /\ heap'[p].session = tasks'[i].item

C5_FailedUntouched ==
  \A i \in Convenient :
    tasks[i].fut.pc = "failed" =>
      /\ tasks[i].writes = 0
      /\ tasks[i].item = None
      /\ tasks[i].error = tasks[i].fut.err
      /\ tasks[i].error \in
           {"RequestConstruction", "UrlConstruction", "Transport", "ResponseDecoding"}

C5_FailingStep ==
  \A i \in Convenient :
    (tasks[i].fut.pc # "failed" /\ tasks'[i].fut.pc = "failed") =>
      /\ heap' = heap
      /\ tasks'[i].error = tasks'[i].fut.err

(* C5: a convenience operation that fails, at whichever stage, has not     *)
(* written the store (the failing step leaves it as it was), yields no     *)
(* Session, and gives the caller the error its dispatch produced.          *)
C5_FailureLeavesStore == []C5_FailedUntouched /\ [][C5_FailingStep]_vars

(* a login whose response could not be decoded, on a populated store *)
C5_Witness ==
  \E i \in Convenient :
    /\ tasks[i].fut.pc = "failed" /\ tasks[i].error = "ResponseDecoding"
    /\ tasks[i].fut.sent # <<>>
    /\ heap[tasks[i].data].session = Some(RestoredSession)

(* all handles point at one ClientData *)
C6_OneStore ==
  \A h1, h2 \in Handles :
    handles[h1] = handles[h2] /\ session(h1) = session(h2)

C6_VisibleEverywhere ==
  /\ \A i \in Convenient :
       Completes(i) => \A h \in Handles : session(h)' = tasks'[i].item
  /\ \A i \in Tasks :
       (/\ RequiresAuthentication(tasks[i].fut.E)
        /\ tasks[i].fut.pc = "start" /\ tasks'[i].fut.pc = "resolved") =>
         \A h \in Handles : tasks'[i].fut.read = Some(session(h))

(* C6: every clone of the handle points at the same ClientData, so all     *)
(* clones return the same session(); the Session a convenience operation   *)
(* writes through one clone is what session() returns on every clone in    *)
(* the very next state, and an authenticated dispatch through any clone    *)
(* injects the token that every clone's session() holds at that moment.    *)
C6_SharedStore == []C6_OneStore /\ [][C6_VisibleEverywhere]_vars

(* a login through one clone, then an authenticated call through another   *)
(* that injected the token of that login                                   *)
C6_Witness ==
  \E i, j \in Tasks :
    /\ tasks[i].op = "log_in" /\ tasks[i].fut.pc = "done"
    /\ tasks[j].op = "call" /\ tasks[j].via # tasks[i].via
    /\ tasks[j].fut.emptyAtCall
    /\ tasks[j].fut.sent # <<>>
    /\ tasks[j].fut.read = Some(tasks[i].item)
    /\ \A h \in Handles : session(h) = tasks[i].item

---------------------------------------------------------------------------
(* Properties of the sync stream                                           *)

(* the value of query parameter name, if the query has it *)
ParamValue(query, name) ==
  LET ks == {k \in 1..Len(QueryPairs(query)) : QueryPairs(query)[k][1] = name}
  IN  IF ks = {} THEN None ELSE Some(QueryPairs(query)[CHOOSE k \in ks : TRUE][2])

(* the items a stream yielded that are a response or an error *)
ItemCount(st) == Len(st.items) - (IF Ended(st) THEN 1 ELSE 0)

CursorThreaded(st) ==
  /\ \A n \in 1..Len(st.issued) :
       /\ n = 1 => st.issued[n].since = st.arg_since
       /\ n > 1 =>
            /\ n - 1 <= Len(st.items)
            /\ st.items[n - 1].kind = "Ok"
            /\ st.issued[n].since = Some(st.items[n - 1].response.next_batch)
  /\ ItemCount(st) <= Len(st.issued)
  /\ \A n \in 1..ItemCount(st) : st.items[n].request = st.issued[n]
  /\ Len(st.wire) <= Len(st.issued)
  /\ \A n \in 1..Len(st.wire) :
       ParamValue(st.wire[n].uri.query, "since") = st.issued[n].since

(* C7 as stated: the first request carries the starting cursor, the n-th   *)
(* the next_batch of response n-1, each response is the item of the        *)
(* request that produced it, and a cursor that was replaced is never sent  *)
(* again.                                                                  *)
C7_Original ==
  \A s \in Streams :
    /\ CursorThreaded(streams[s])
    /\ \A n \in 1..Len(streams[s].issued) : \A m \in 1..(n - 1) :
         streams[s].issued[m].since # streams[s].issued[n].since

(* C7 amended: the first request carries the starting cursor (absent if    *)
(* none was given), the n-th request the next_batch of response n-1, on    *)
(* the typed request and on the wire, and each item is the outcome of the  *)
(* request in the same position; an earlier cursor goes out again exactly  *)
(* when the homeserver returns it again as the latest next_batch.          *)
C7_CursorThreading ==
  \A s \in Streams : CursorThreaded(streams[s])

C7_Witness ==
  \E s \in Streams :
    /\ streams[s].arg_since = None
    /\ Len(streams[s].issued) = 3 /\ Len(streams[s].wire) = 3
    /\ streams[s].issued[2].since = Some("t1")
    /\ streams[s].issued[3].since = Some("t2")

(* C8: with set_presence = false every request of the stream carries       *)
(* set_presence = Offline, with set_presence = true none carries a         *)
(* presence directive; the choice made at creation never changes.          *)
C8_PresenceDirective ==
  \A s \in Streams :
    LET st == streams[s]
        directive == IF st.arg_presence THEN None ELSE Some("Offline")
    IN  /\ st.set_presence = directive
        /\ \A n \in 1..Len(st.issued) : st.issued[n].set_presence = directive
        /\ \A n \in 1..Len(st.wire) :
             ParamValue(st.wire[n].uri.query, "set_presence") = directive
        /\ st.fut # None => st.fut[1].request.set_presence = directive

C8_Witness ==
  \E s \in Streams :
    /\ ~streams[s].arg_presence
    /\ Len(streams[s].wire) >= 2
    /\ \A n \in 1..Len(streams[s].wire) :
         HasParam(streams[s].wire[n].uri.query, "set_presence")

(* C9: a stream has at most one request outstanding: the requests it has   *)
(* built exceed the items it has yielded by one exactly while a future is  *)
(* being processed, and by none otherwise, so request n+1 is built only    *)
(* after the outcome of request n was yielded.                             *)
C9_Sequential ==
  \A s \in Streams :
    LET st == streams[s] IN
    /\ st.state = "Processing" => Len(st.issued) = ItemCount(st) + 1
    /\ st.state # "Processing" => Len(st.issued) = ItemCount(st)
    /\ Len(st.wire) <= ItemCount(st) + 1
    /\ \A n \in 1..ItemCount(st) :
         n <= Len(st.issued) /\ st.items[n].request = st.issued[n]

C9_Witness ==
  \E s \in Streams :
    /\ streams[s].state = "Processing" /\ streams[s].fut[1].pc = "inflight"
    /\ Len(streams[s].issued) = 2 /\ Len(streams[s].items) = 1
    /\ Len(streams[s].wire) = 2

(* C10: the stream ends only after an error: an end-of-stream item directly *)
(* follows an error item; after a response the state is Ready with the      *)
(* response's next_batch as cursor; the error item is the error of the      *)
(* failed dispatch, and after it no request is built and nothing but the    *)
(* end of the stream is yielded.                                            *)
C10_EndsOnlyOnError ==
  \A s \in Streams :
    LET st == streams[s] IN
    /\ \A n \in 1..Len(st.items) :
         /\ st.items[n].kind = "End" => (n > 1 /\ st.items[n - 1].kind = "Err")
         /\ st.items[n].kind = "Err" =>
              /\ Len(st.issued) = n
              /\ st.state = "Empty"
              /\ st.items[n].err = st.fut[1].err
              /\ st.items[n].err \in ErrorKinds
              /\ \A m \in (n + 1)..Len(st.items) : st.items[m].kind = "End"
    /\ st.state = "Empty" => (st.items # <<>> /\ st.fut[1].pc = "failed")
    /\ (st.state = "Ready" /\ st.items # <<>>) =>
         /\ st.items[Len(st.items)].kind = "Ok"
         /\ st.since = Some(st.items[Len(st.items)].response.next_batch)

C10_Witness ==
  \E s \in Streams :
    /\ Len(streams[s].items) = 3
    /\ streams[s].items[1].kind = "Ok"
    /\ streams[s].items[2].kind = "Err" /\ streams[s].items[2].err = "Transport"
    /\ streams[s].items[3].kind = "End"

---------------------------------------------------------------------------
Datas == 1..Len(heap)

(* the holder of the Mutex of ClientData p is a task inside one of its two  *)
(* critical sections, or a session() call                                   *)
HolderInCriticalSection(p) ==
  LET who == heap[p].lock[1] IN
  IF who[1] = "task"
  THEN /\ who[2] \in Tasks
       /\ NeedsLock(tasks[who[2]])
       /\ LockOf(tasks[who[2]]) = p
  ELSE /\ who[2] \in Handles
       /\ handles[who[2]] = p

(* the step that drops the guard is enabled: it waits for no response *)
ReleaseEnabled ==
  ENABLED (\/ \E i \in Tasks, uri_ok \in BOOLEAN : LockedResolve(i, uri_ok)
           \/ \E i \in Tasks : LockedStore(i)
           \/ \E h \in Handles : SessionUnlock(h))

(* C11 as stated: no caller holds the lock of the Session Store while a     *)
(* transport request of any caller is awaiting its response.                *)
C11_Original ==
  \A p \in Datas :
    heap[p].lock # None => \A f \in Futs : f.pc # "inflight"

(* C11 amended: the lock of the Session Store is never held across a        *)
(* suspension point: whoever holds it is inside a critical section (the     *)
(* authentication check, the store of a new Session, session()), never a    *)
(* future awaiting its transport response or between two polls, and the     *)
(* step that releases it is enabled whatever the requests in flight do; a   *)
(* future that awaits a response holds no lock.                             *)
C11_NotAcrossSuspension ==
  /\ \A p \in Datas :
       heap[p].lock # None => HolderInCriticalSection(p) /\ ReleaseEnabled
  /\ \A i \in Tasks :
       tasks[i].fut.pc \in {"resolved", "inflight"} =>
         \A p \in Datas : ~Holds(heap, p, TaskHolder(i))

(* one task holds the lock while the request of another is in flight *)
C11_Witness ==
  \E i, j \in Tasks :
    /\ i # j
    /\ tasks[i].fut.pc = "inflight"
    /\ Holds(heap, LockOf(tasks[j]), TaskHolder(j))
    /\ tasks[j].fut.pc = "responded"

---------------------------------------------------------------------------
StoreUnchanged == \A p \in Datas : heap'[p].session = heap[p].session

(* C12: Client::request never writes the Session Store: every step of a     *)
(* call through an endpoint's call function, whatever the endpoint, the     *)
(* store and the outcome, every step of a convenience operation other than  *)
(* its success continuation, and the creation of either future leave the    *)
(* store as it was; a step that changes the store is the success            *)
(* continuation of log_in, register_guest or register_user.                 *)
C12_RequestStep ==
  /\ \A i \in Tasks :
       (tasks'[i] # tasks[i] /\ (tasks[i].op = "call" \/ ~Completes(i)))
         => StoreUnchanged
  /\ Len(tasks') > Len(tasks) => StoreUnchanged
  /\ ~StoreUnchanged => \E i \in Convenient : Completes(i)

C12_RequestNeverWrites == [][C12_RequestStep]_vars

(* a call on an endpoint that requires authentication read a Session and    *)
(* completed, next to a convenience operation that completed                *)
C12_Witness ==
  \E i \in Tasks, j \in Convenient :
    /\ tasks[i].op = "call"
    /\ tasks[i].fut.pc = "done"
    /\ tasks[i].fut.read # None /\ tasks[i].fut.read[1] # None
    /\ tasks[j].fut.pc = "done"

---------------------------------------------------------------------------
(* a session() call on ClientData p returns in this step *)
ReadReturns(p) ==
  /\ heap[p].lock # None
  /\ heap[p].lock[1][1] = "session"
  /\ heap'[p].lock = None

(* C13: a session() read never changes the Session Store and returns the    *)
(* value the store holds; two reads with no store write between them        *)
(* return equal values.                                                     *)
C13_ReadStep ==
  \A p \in Datas :
    ReadReturns(p) =>
      /\ heap'[p].session = heap[p].session
      /\ heap'[p].observed # None
      /\ heap'[p].observed[1].value = heap[p].session
      /\ (heap[p].observed # None /\ heap[p].observed[1].fresh)
           => heap'[p].observed[1].value = heap[p].observed[1].value

C13_RepeatedReads == [][C13_ReadStep]_vars

(* a read returned the Session a login stored, nothing was written since,   *)
(* and the next read is under way                                           *)
C13_Witness ==
  \E p \in Datas :
    /\ heap[p].observed # None
    /\ heap[p].observed[1].fresh
    /\ heap[p].observed[1].value \in {Some(s) : s \in ServerSessions}
    /\ heap[p].lock # None
    /\ heap[p].lock[1][1] = "session"

---------------------------------------------------------------------------
(* what a future shows of the stages it went through *)
Overlaid(f) == f.hyper_request # None /\ f.url.path = f.hyper_request[1].path

Checked(f) == RequiresAuthentication(f.E) => f.read # None

NothingSent(f) ==
  f.uri = None /\ f.sent = <<>> /\ f.hyper_response = None /\ f.response = None

StagesInOrder(f) ==
  /\ f.read # None => Overlaid(f)
  /\ f.uri # None => Overlaid(f) /\ Checked(f)
  /\ f.sent # <<>> => f.uri # None
  /\ f.hyper_response # None => f.sent # <<>>
  /\ f.response # None => f.hyper_response # None
  /\ f.pc = "done" => f.response # None /\ f.err = ""

FirstFailureDecides(f) ==
  /\ f.err \in ErrorKinds
  /\ f.err = "RequestConstruction" <=> f.hyper_request = None
  /\ f.err = "RequestConstruction" =>
       /\ f.url = heap[f.data1].homeserver_url
       /\ f.read = None
       /\ NothingSent(f)
  /\ f.err = "AuthenticationRequired" =>
       /\ Overlaid(f)
       /\ RequiresAuthentication(f.E) /\ f.read = Some(None)
       /\ NothingSent(f)
  /\ f.err = "UrlConstruction" =>
       /\ Overlaid(f)
       /\ RequiresAuthentication(f.E) => (f.read # None /\ f.read[1] # None)
       /\ NothingSent(f)
  /\ f.err = "Transport" =>
       /\ f.uri # None /\ Len(f.sent) = 1
       /\ f.hyper_response = None /\ f.response = None
  /\ f.err = "ResponseDecoding" =>
       /\ Len(f.sent) = 1 /\ f.hyper_response # None
       /\ f.response = None

(* C14: the stages of a dispatch run in the order request construction,     *)
(* URL overlay, authentication check, URL validation, transport, response   *)
(* decoding; the first one that fails gives the error its kind and no later *)
(* stage runs: no transport call after a request-construction,              *)
(* authentication or URL-construction failure, and no read of the Session   *)
(* Store after a request-construction failure.                              *)
C14_StageOrder ==
  \A f \in Futs :
    /\ StagesInOrder(f)
    /\ f.pc = "failed" => FirstFailureDecides(f)

(* a request that failed to convert on an endpoint that requires            *)
(* authentication while the store is empty, next to one that failed the     *)
(* authentication check                                                     *)
C14_Witness ==
  \E f, g \in Futs :
    /\ f.err = "RequestConstruction"
    /\ RequiresAuthentication(f.E)
    /\ heap[f.data1].session = None
    /\ g.err = "AuthenticationRequired"

---------------------------------------------------------------------------
(* C15: nothing is retried: a dispatch future (of an endpoint call, of a    *)
(* convenience operation, of a stream) hands at most one request to the     *)
(* transport, whatever its outcome, and a stream made at most one transport *)
(* call per item it yielded plus one for the request in progress.           *)
C15_NoRetry ==
  /\ \A f \in Futs : Len(f.sent) <= 1
  /\ \A s \in Streams :
       /\ Len(streams[s].wire) <= Len(streams[s].issued)
       /\ Len(streams[s].wire) <=
            ItemCount(streams[s])
              + (IF streams[s].state = "Processing" THEN 1 ELSE 0)

(* a stream that ended on a transport failure after a response, next to a   *)
(* log_in that failed at the transport: one transport call each time        *)
C15_Witness ==
  \E s \in Streams, i \in Convenient :
    /\ Ended(streams[s])
    /\ ItemCount(streams[s]) = 2
    /\ streams[s].items[2].err = "Transport"
    /\ Len(streams[s].wire) = 2
    /\ tasks[i].fut.err = "Transport"
    /\ Len(tasks[i].fut.sent) = 1

---------------------------------------------------------------------------
(* the store of ClientData p is written in this step *)
Written(p) == heap'[p].session # heap[p].session

(* task i hands its Session to the caller in this step *)
Delivers(i) == tasks[i].item = None /\ tasks'[i].item # None

C16_Abandoned ==
  \A i \in Convenient :
    tasks[i].dropped => (tasks[i].writes = 0 /\ tasks[i].item = None)

C16_AbandonStep ==
  /\ \A i \in Convenient :
       /\ (~tasks[i].dropped /\ tasks'[i].dropped) => StoreUnchanged
       /\ tasks[i].dropped => (tasks'[i] = tasks[i] /\ ~Written(tasks[i].data))
       /\ Delivers(i) =>
            /\ ~tasks[i].dropped
            /\ heap'[tasks[i].data].session = tasks'[i].item
  /\ \A p \in Datas :
       Written(p) => \E i \in Convenient : tasks[i].data = p /\ Delivers(i)
  /\ \A s \in Streams :
       streams[s].dropped =>
         /\ streams'[s].issued = streams[s].issued
         /\ streams'[s].wire = streams[s].wire
         /\ streams'[s].items = streams[s].items

(* C16: dropping a log_in / register_guest / register_user future at any    *)
(* point before it completes, also after the transport response arrived,    *)
(* leaves the Session Store unchanged and the dropped future never writes   *)
(* it later; a dropped sync stream issues no further request; the store is  *)
(* written only in the step that hands the Session to the caller.           *)
C16_AbandonLeavesStore == []C16_Abandoned /\ [][C16_AbandonStep]_vars

(* a log_in dropped after its response had arrived, with the store still    *)
(* as constructed, and a stream dropped while its second request was in     *)
(* flight                                                                   *)
C16_Witness ==
  \E i \in Convenient, s \in Streams :
    /\ tasks[i].dropped
    /\ tasks[i].fut.droppedAt = "responded"
    /\ heap[tasks[i].data].session = Some(RestoredSession)
    /\ streams[s].dropped
    /\ Len(streams[s].issued) = 2
    /\ streams[s].fut[1].droppedAt = "inflight"

---------------------------------------------------------------------------
(* the Session made of the three fields of the response task i received *)
ResponseSession(i) ==
  Some(SessionFromResponse(DecodeBody(tasks[i].fut.E,
                                      tasks[i].fut.hyper_response[1].body)))

C17_Wholesale ==
  \A p \in Datas :
    \/ /\ heap[p].session \in Sessions
       /\ \A i \in Convenient : tasks[i].data = p => tasks[i].fut.pc # "done"
    \/ \E i \in Convenient :
         /\ tasks[i].data = p
         /\ tasks[i].fut.pc = "done"
         /\ heap[p].session = ResponseSession(i)

C17_LastContinuationWins ==
  \A i \in Convenient :
    Completes(i) =>
      /\ heap'[tasks[i].data].session = ResponseSession(i)
      /\ \A j \in Convenient :
           (j # i /\ tasks[j].data = tasks[i].data /\ tasks[j].fut.pc = "done"
              /\ tasks[j].item # tasks'[i].item)
             => heap'[tasks[i].data].session # tasks[j].item

(* C17: the Session Store is replaced as a whole: under every interleaving  *)
(* of log_in / register_guest / register_user it holds the value given to   *)
(* the constructor or the three fields of the response of one single        *)
(* completed call, never fields of two sources; the value it holds is that  *)
(* of the call whose success continuation ran last, whether or not that     *)
(* call was issued last.                                                    *)
C17_ReplacedWholesale == []C17_Wholesale /\ [][C17_LastContinuationWins]_vars

(* two calls completed with different responses and the store holds the     *)
(* Session of the one issued first                                          *)
C17_Witness ==
  \E i, j \in Convenient :
    /\ i < j
    /\ tasks[i].fut.pc = "done" /\ tasks[j].fut.pc = "done"
    /\ tasks[i].item # tasks[j].item
    /\ heap[tasks[i].data].session = tasks[i].item

---------------------------------------------------------------------------
(* the access_token pair the authentication check of f appended, if any *)
TokenPair(f) ==
  IF f.read # None /\ f.read[1] # None
  THEN << <<"access_token", f.read[1][1].access_token>> >>
  ELSE <<>>

(* the URL of f is the homeserver's scheme, host and port with the path and *)
(* query of f's own converted request, plus f's own token                   *)
OwnUrl(f) ==
  LET hs == heap[f.data1].homeserver_url IN
  /\ f.url.scheme = hs.scheme /\ f.url.host = hs.host /\ f.url.port = hs.port
  /\ (f.pc = "start" \/ f.hyper_request = None) => f.url = hs
  /\ (f.pc # "start" /\ f.hyper_request # None) =>
       /\ f.url.path = f.hyper_request[1].path
       /\ QueryPairs(f.url.query) =
            QueryPairs(f.hyper_request[1].query) \o TokenPair(f)
  /\ f.uri # None => f.uri[1] = UriFromStr(UrlAsRef(f.url))
  /\ \A k \in 1..Len(f.sent) :
       /\ f.sent[k].uri.scheme = hs.scheme
       /\ f.sent[k].uri.authority = <<hs.host, hs.port>>
       /\ f.sent[k].uri.path = f.hyper_request[1].path
       /\ QueryPairs(f.sent[k].uri.query) =
            QueryPairs(f.hyper_request[1].query) \o TokenPair(f)

(* C18: every dispatch resolves its URL from a copy of the homeserver URL,  *)
(* keeping scheme, host and port and replacing path and query by those of   *)
(* its converted request; the stored homeserver URL stays the one given to  *)
(* the constructor, so no path, query or access_token of one call shows in  *)
(* the URL of another call.                                                 *)
C18_FreshUrl ==
  /\ \A p \in Datas : heap[p].homeserver_url \in HomeserverUrls
  /\ \A f \in Futs : OwnUrl(f)

(* on a homeserver URL with a path and a query of its own: a call sent with *)
(* a token, and a later call on an open endpoint sent with no query at all  *)
C18_Witness ==
  \E i, j \in Tasks :
    /\ i < j
    /\ heap[tasks[i].fut.data1].homeserver_url.query # None
    /\ tasks[i].fut.sent # <<>>
    /\ HasParam(tasks[i].fut.sent[1].uri.query, "access_token")
    /\ tasks[j].fut.sent # <<>>
    /\ tasks[j].fut.sent[1].uri.query = None

---------------------------------------------------------------------------
C19_StaysNonEmpty ==
  \A p \in Datas : heap[p].session # None => heap'[p].session # None

C19_NoLateAuthenticationRequired ==
  \A f \in Futs :
    (RequiresAuthentication(f.E) /\ ~f.emptyAtCall) =>
      /\ f.err # "AuthenticationRequired"
      /\ f.read # None => f.read[1] # None

(* C19: no operation empties the Session Store: once it holds a Session it  *)
(* holds one in every later state, so a dispatch started from then on,      *)
(* through any clone, never fails with AuthenticationRequired.              *)
C19_NeverEmptied ==
  []C19_NoLateAuthenticationRequired /\ [][C19_StaysNonEmpty]_vars

(* a log_in through one handle filled the store, and a call started         *)
(* afterwards through a clone passed the authentication check with that     *)
(* Session and was sent                                                     *)
C19_Witness ==
  \E i \in Convenient, j \in Tasks :
    /\ tasks[i].fut.pc = "done"
    /\ tasks[j].op = "call" /\ tasks[j].via # tasks[i].via
    /\ ~tasks[j].fut.emptyAtCall
    /\ tasks[j].fut.read = Some(tasks[i].item)
    /\ tasks[j].fut.sent # <<>>

---------------------------------------------------------------------------
(* the stream was created on an empty store and its first request is the    *)
(* one in fut                                                               *)
FirstOfEmptyCreated(s) ==
  /\ streams[s].createdEmpty
  /\ Len(streams[s].issued) = 1
  /\ streams[s].fut # None

(* creating the stream issues nothing and reads nothing *)
C20_LazyCreation ==
  \A s \in Streams :
    streams[s].issued = <<>> =>
      /\ streams[s].fut = None
      /\ streams[s].wire = <<>>
      /\ streams[s].items = <<>>

(* the authentication check of a stream's request reads the store as it is  *)
(* in the step in which the check runs                                      *)
C20_ReadAtDispatch ==
  \A s \in Streams :
    (/\ streams[s].fut # None
     /\ streams[s].fut[1].pc = "start"
     /\ streams[s].fut[1].hyper_request # None
     /\ streams'[s].fut[1].pc \notin {"start", "dropped"})
      => streams'[s].fut[1].read = Some(heap[streams[s].fut[1].data1].session)

(* C20 as stated: a stream created on an empty store succeeds (does not     *)
(* fail the authentication check) if a login completed before its first     *)
(* poll, and otherwise yields AuthenticationRequired as its first item and  *)
(* then ends.                                                               *)
C20_Original ==
  /\ C20_LazyCreation
  /\ \A s \in Streams :
       FirstOfEmptyCreated(s) =>
         LET f == streams[s].fut[1] IN
         /\ ~f.emptyAtCall => f.err # "AuthenticationRequired"
         /\ (f.emptyAtCall /\ Finished(f)) =>
              /\ streams[s].items[1].kind = "Err"
              /\ streams[s].items[1].err = "AuthenticationRequired"
              /\ streams[s].state = "Empty"

C20_FirstRequest ==
  \A s \in Streams :
    FirstOfEmptyCreated(s) =>
      LET f == streams[s].fut[1] IN
      /\ (f.read # None /\ f.read[1] # None) =>
           /\ f.err # "AuthenticationRequired"
           /\ ParamValue(f.url.query, "access_token")
                = Some(f.read[1][1].access_token)
      /\ f.read = Some(None) =>
           /\ streams[s].items[1].kind = "Err"
           /\ streams[s].items[1].err = "AuthenticationRequired"
           /\ streams[s].state = "Empty"
           /\ streams[s].wire = <<>>
      /\ (f.read = None /\ Finished(f)) =>
           /\ f.err = "RequestConstruction"
           /\ streams[s].items[1].err = "RequestConstruction"
           /\ streams[s].state = "Empty"

(* C20 amended: Client::sync is lazy and reads the session per request:     *)
(* creating the stream issues no transport call and reads no store; each    *)
(* request carries the token the store holds when its authentication check  *)
(* runs, so a log_in completing between two polls changes the token of the  *)
(* next request.  On a stream created on an empty store, the first request  *)
(* passes the authentication check with a login's token if that login       *)
(* completed before the check runs (it can still fail at a later stage);    *)
(* if the check finds the store empty the first item is                     *)
(* AuthenticationRequired and the stream then ends; if the request does not *)
(* convert the first item is RequestConstruction and the stream then ends.  *)
C20_LazyPerRequest ==
  [](C20_LazyCreation /\ C20_FirstRequest) /\ [][C20_ReadAtDispatch]_vars

(* a stream created on an empty store whose first request went out with the *)
(* token of a log_in that completed before the stream was first polled      *)
C20_Witness ==
  \E s \in Streams, i \in Convenient :
    /\ FirstOfEmptyCreated(s)
    /\ ~streams[s].fut[1].emptyAtCall
    /\ tasks[i].fut.pc = "done"
    /\ streams[s].wire # <<>>
    /\ ParamValue(streams[s].wire[1].uri.query, "access_token")
         = Some(tasks[i].item[1].access_token)
    /\ streams[s].items # <<>> /\ streams[s].items[1].kind = "Ok"

====
